---- MODULE Spec2Model ----
(***************************************************************************)
(* RVMMessageBus (src/unnamed/part_000): the correlation layer between the *)
(* runtime and the RVM.  The bus keeps messageIdToCallback, a map from the  *)
(* GUID of every published envelope to the callback waiting for the        *)
(* response; the transport's 'message' handler resolves entries or         *)
(* re-emits broadcasts; recordCallbackInfo arms a setTimeout per request   *)
(* that carries a numeric timeToLive.                                      *)
(*                                                                         *)
(* Everything runs on one event loop, so every handler is one atomic       *)
(* action.  JavaScript objects are records whose field js holds the        *)
(* kind of value; a property that is absent is a field that is not in the     *)
(* record's DOMAIN.  Message identifiers are the GUIDs 1, 2, ... in the    *)
(* order app.generateGUID() hands them out; 0 is a GUID this bus never     *)
(* generated.                                                              *)
(***************************************************************************)
EXTENDS Integers, Sequences, FiniteSets, TLC

VARIABLES
    messageIdToCallback, \* RVMMessageBus.messageIdToCallback
    guidCount,           \* how many GUIDs app.generateGUID() has produced
    timers,              \* the setTimeout closures that have not fired yet
    listeners,           \* EventEmitter registrations, in insertion order
    count,               \* history: invocations of each request's callback
    transportLog,        \* history: the envelopes handed to transport.publish,
                         \* each with whether its messageId was in the table
    downloads,           \* history: for the GUID of every downloadRuntime call,
                         \* what publish returned and how often the caller's
                         \* callback has been invoked
    fetch,               \* convert_options.js: the fetchOptions call under way,
                         \* its arguments, its closure (offlineAccess), the
                         \* reads it has started and the callbacks it has called
    out                  \* what the last task on the event loop did: its
                         \* input, the table before it, and its effects
                         \* (return value, envelopes sent, timers armed,
                         \* functions called, lines logged, an exception
                         \* that escaped)

vars == <<messageIdToCallback, guidCount, timers, listeners, count, transportLog,
          downloads, fetch, out>>

(***************************************************************************)
(* Bounds of the model.                                                    *)
(***************************************************************************)
MaxPublish == 2     \* valid publish calls (GUIDs generated)
MaxCalls == 2       \* invocations of one request's callback
MaxListeners == 2   \* EventEmitter registrations
MaxSize == 2        \* the largest height or width a caller asks for

(***************************************************************************)
(* JavaScript values.                                                      *)
(***************************************************************************)
Obj == [js |-> "object"]

\* the value of a property that is not there: it has no property of its own
Undefined == [js |-> "undefined"]

\* underscore's _.has(obj, key): an own property of a non-null object
_has(obj, key) == key \in DOMAIN obj

\* obj[key], undefined when the property is absent
Get(obj, key) == IF key \in DOMAIN obj THEN obj[key] ELSE Undefined

\* a number n
Num(n) == [js |-> "number", n |-> n]

\* a test that takes every value, undefined too, for a number
_isNumber_always(v) == TRUE

\* underscore's _.isNumber(v)
_isNumber(v) == v.js = "number"

\* a boolean property as the condition of an `if`: present and true
TruthyFlag(obj, key) == key \in DOMAIN obj /\ obj[key] = TRUE

\* a string property as the condition of an `if`: present and not ''
TruthyString(obj, key) == key \in DOMAIN obj /\ obj[key] /= ""

\* delete obj[key]
Delete(obj, key) == [k \in DOMAIN obj \ {key} |-> obj[k]]

(***************************************************************************)
(* The inputs.                                                             *)
(***************************************************************************)
\* what callers hand to publish as msg: null, a string, or a request object
Null == [js |-> "null"]

StringMsg == [js |-> "string"]

GetRvmInfo == [js |-> "object", topic |-> "system", action |-> "get-rvm-info",
               sourceUrl |-> "app.json"]

AppAssetsGetList == [js |-> "object", topic |-> "app-assets", type |-> "get-list",
                     appConfig |-> "app.json", timeToLive |-> Num(2)]

ValidMsgs == {GetRvmInfo, AppAssetsGetList}

Msgs == {Null, StringMsg} \cup ValidMsgs

\* what callers hand to publish as callback: nothing, or a function that
\* returns, or a function that throws when it is called (a function is
\* known by whether it throws)
Callback == [js |-> "function", throws |-> FALSE]

ThrowingCallback == [js |-> "function", throws |-> TRUE]

Callbacks == {Undefined, Callback, ThrowingCallback}

\* the default of publish's callback parameter: () => undefined
Noop == [js |-> "function", throws |-> FALSE]

\* process.pid and process.versions.openfin
ProcessId == 4242

RuntimeVersion == "8.56.30.1"

\* the topics and actions of the broadcasts the RVM sends
Topics == {"application-event", "system"}

Actions == {"crashed", "closed"}

\* the topic whose channels the listeners of the model subscribe to
ListenedTopics == {"application-event"}

\* a payload object with an action
Action(a) == [js |-> "object", action |-> a]

\* a complete broadcast, before a messageId is added
Broadcast(topic, action) ==
    [js |-> "object", broadcast |-> TRUE, topic |-> topic, payload |-> Action(action)]

\* incoming objects that carry the GUID of a request: bare, with an empty
\* payload, and with every field of a broadcast
Responses ==
    {o @@ ("messageId" :> id) :
        o \in {Obj, [js |-> "object", payload |-> Obj],
               Broadcast("application-event", "crashed")},
        id \in 1..MaxPublish}

\* incoming objects that carry the GUID of no request: the same, complete
\* broadcasts for other (topic, action) pairs, a complete broadcast without
\* the flag, and broadcasts without payload, without action, without topic
Unsolicited ==
    {o @@ ("messageId" :> 0) :
        o \in {Obj, [js |-> "object", payload |-> Obj],
               Broadcast("application-event", "crashed"),
               Broadcast("application-event", "closed"),
               Broadcast("system", "crashed"),
               [js |-> "object", topic |-> "application-event",
                payload |-> Action("crashed")],
               [js |-> "object", broadcast |-> TRUE, topic |-> "application-event"],
               [js |-> "object", broadcast |-> TRUE, topic |-> "application-event",
                payload |-> Obj],
               [js |-> "object", broadcast |-> TRUE, payload |-> Action("crashed")]}}

\* the objects an incoming payload can parse to; two have no messageId
DataObjs ==
    {Obj, Broadcast("application-event", "crashed")} \cup Responses \cup Unsolicited

\* what the transport delivers: text that is no JSON, JSON text of a
\* number, JSON text of an object
Data == {[raw |-> "not-json"], [raw |-> "json", value |-> Num(5)]}
            \cup {[raw |-> "json", value |-> o] : o \in DataObjs}

(***************************************************************************)
(* publish and recordCallbackInfo.                                         *)
(***************************************************************************)
\* an argument check that lets every value through
isObjectMsg_acceptsAll(msg) == TRUE

\* publish's argument check: !msg || typeof msg !== 'object' is false
isObjectMsg(msg) == msg.js = "object"

\* a payload that still carries the topic
payloadOf_keepsTopic(msg) ==
    msg @@ [processId |-> ProcessId, runtimeVersion |-> RuntimeVersion]

\* Object.assign({processId, runtimeVersion}, msg), then delete payload.topic
payloadOf(msg) ==
    Delete(msg @@ [processId |-> ProcessId, runtimeVersion |-> RuntimeVersion], "topic")

\* the envelope publish builds around msg with a fresh GUID
envelopeOf(msg, guid) ==
    [topic |-> Get(msg, "topic"), messageId |-> guid, payload |-> payloadOf(msg)]

\* a recordCallbackInfo that arms the timer and forgets to store the callback
recordCallbackInfo_timerOnly(tbl, tms, callback, timeToLiveInSeconds, envelope) ==
    [table |-> tbl,
     timers |-> IF _isNumber(timeToLiveInSeconds)
                THEN tms \cup {[messageId |-> envelope.messageId,
                                timeToLiveInSeconds |-> timeToLiveInSeconds,
                                envelope |-> envelope]}
                ELSE tms]

\* recordCallbackInfo(callback, timeToLiveInSeconds, envelope): the table and
\* the pending timers it leaves
recordCallbackInfo(tbl, tms, callback, timeToLiveInSeconds, envelope) ==
    IF callback.js = "function" /\ _has(envelope, "messageId")
    THEN [table |-> (envelope.messageId :> callback) @@ tbl,
          timers |-> IF _isNumber(timeToLiveInSeconds)
                     THEN tms \cup {[messageId |-> envelope.messageId,
                                     timeToLiveInSeconds |-> timeToLiveInSeconds,
                                     envelope |-> envelope]}
                     ELSE tms]
    ELSE [table |-> tbl, timers |-> tms]

\* a publish that reports success whatever the transport answers
publishResult_alwaysTrue(sendResult) == TRUE

\* return this.transport.publish(envelope)
publishResult(sendResult) == sendResult

\* app.generateGUID(), called for the (n + 1)-th time
generateGUID(n) == n + 1

\* publish(msg, callback) where the transport answers sendResult
publish(msg, callback, sendResult) ==
    IF ~isObjectMsg(msg)
    THEN /\ out' = [op |-> "publish", input |-> [msg |-> msg, callback |-> callback],
                    before |-> messageIdToCallback, ret |-> FALSE, sent |-> <<>>,
                    armed |-> {}, calls |-> <<>>,
                    log |-> <<"Argument must be an object">>, escaped |-> FALSE]
         /\ UNCHANGED <<messageIdToCallback, guidCount, timers, listeners, count, transportLog,
                      downloads, fetch>>
    ELSE LET cb == IF callback.js = "undefined" THEN Noop ELSE callback
             envelope == envelopeOf(msg, generateGUID(guidCount))
             recorded == recordCallbackInfo(messageIdToCallback, timers, cb,
                                            Get(msg, "timeToLive"), envelope)
             handed == [envelope |-> envelope,
                        registered |-> _has(recorded.table, envelope.messageId)]
         IN /\ guidCount < MaxPublish
            /\ guidCount' = guidCount + 1
            /\ messageIdToCallback' = recorded.table
            /\ timers' = recorded.timers
            /\ transportLog' = Append(transportLog, handed)
            /\ out' = [op |-> "publish", input |-> [msg |-> msg, callback |-> callback],
                       before |-> messageIdToCallback, sendResult |-> sendResult,
                       ret |-> publishResult(sendResult),
                       sent |-> <<handed>>, armed |-> recorded.timers \ timers,
                       calls |-> <<>>,
                       log |-> <<>>, escaped |-> FALSE]
            /\ UNCHANGED <<listeners, count, downloads, fetch>>

(***************************************************************************)
(* The transport's 'message' handler.                                      *)
(***************************************************************************)
\* how the handler's try block ends: normally, or by an exception
Return(tbl, calls, log) == [table |-> tbl, calls |-> calls, log |-> log, thrown |-> FALSE]

Throw(tbl, calls, log) == [table |-> tbl, calls |-> calls, log |-> log, thrown |-> TRUE]

\* route.rvmMessageBus('broadcast', topic, action): the channel's name
Route(kind, topic, action) == <<"rvm-message-bus", kind, topic, action>>

\* this.emit(channel, payload): the listeners of channel, in insertion order
emit(lsn, channel, payload) ==
    LET on == SelectSeq([i \in 1..Len(lsn) |-> [id |-> i, channel |-> lsn[i]]],
                        LAMBDA l : l.channel = channel)
    IN [i \in 1..Len(on) |-> [kind |-> "listener", id |-> on[i].id, arg |-> payload]]

\* new Error(message)
Error(message) == [js |-> "Error", message |-> message]

\* the function downloadRuntime hands to publish, closed over the caller's
\* callback
DownloadRuntimeCallback(callback) == [js |-> "function", wraps |-> callback]

\* a response callback that reports every response as a success
downloadRuntimeResponse_noError(callback, messageId, response) ==
    IF ~_has(response, "payload")
    THEN [calls |-> <<>>, thrown |-> TRUE]
    ELSE [calls |-> <<[kind |-> "downloadCallback", id |-> messageId, args |-> <<>>]>>,
          thrown |-> callback.throws]

\* downloadRuntime's response callback: reading payload.error of a response
\* without payload throws; otherwise callback(new Error(payload.error)) or
\* callback(), and what callback throws goes on to the caller
downloadRuntimeResponse(callback, messageId, response) ==
    IF ~_has(response, "payload")
    THEN [calls |-> <<>>, thrown |-> TRUE]
    ELSE [calls |-> <<[kind |-> "downloadCallback", id |-> messageId,
                       args |-> IF TruthyString(response.payload, "error")
                                THEN <<Error(response.payload.error)>>
                                ELSE <<>>]>>,
          thrown |-> callback.throws]

\* calling the function f stored under messageId with arg: the calls it
\* makes itself and whether it throws
invoke(f, messageId, arg) ==
    IF _has(f, "wraps")
    THEN downloadRuntimeResponse(f.wraps, messageId, arg)
    ELSE [calls |-> <<>>, thrown |-> f.throws]

\* _.has(this.messageIdToCallback, messageId)
weWereExpectingThisResponse(tbl, messageId) == _has(tbl, messageId)

\* a handler that takes every unexpected message for a broadcast
isBroadcastMessage_always(dataObj) == TRUE

\* dataObj.broadcast, as a condition
isBroadcastMessage(dataObj) == TruthyFlag(dataObj, "broadcast")

\* topic && payload && action
isValidBroadcast(dataObj) ==
    TruthyString(dataObj, "topic") /\ TruthyString(dataObj.payload, "action")

\* a response branch that resets the whole table instead of deleting one key
responseBranch_clearsTable(tbl, messageId, dataObj) ==
    LET call == <<[kind |-> "callback", id |-> messageId, arg |-> dataObj]>>
        r == invoke(tbl[messageId], messageId, dataObj)
    IN IF r.thrown
       THEN Throw(tbl, call \o r.calls, <<>>)
       ELSE Return(<<>>, call \o r.calls, <<>>)

\* this.messageIdToCallback[messageId](dataObj); delete ...[messageId]: the
\* delete is not reached when the callback throws
responseBranch(tbl, messageId, dataObj) ==
    LET call == <<[kind |-> "callback", id |-> messageId, arg |-> dataObj]>>
        r == invoke(tbl[messageId], messageId, dataObj)
    IN IF r.thrown
       THEN Throw(tbl, call \o r.calls, <<>>)
       ELSE Return(Delete(tbl, messageId), call \o r.calls, <<>>)

\* a broadcast branch that routes by topic alone
broadcastBranch_ignoresAction(tbl, lsn, dataObj) ==
    IF ~_has(dataObj, "payload")
    THEN Throw(tbl, <<>>, <<>>)
    ELSE IF isValidBroadcast(dataObj)
         THEN Return(tbl, emit(lsn, Route("broadcast", dataObj.topic, "crashed"),
                               dataObj.payload), <<>>)
         ELSE Return(tbl, <<>>, <<"RVMMessageBus received an invalid broadcast message">>)

\* a broadcast branch that fills in a missing topic or action instead of
\* dropping the message
broadcastBranch_defaults(tbl, lsn, dataObj) ==
    IF ~_has(dataObj, "payload")
    THEN Throw(tbl, <<>>, <<>>)
    ELSE Return(tbl, emit(lsn, Route("broadcast",
                                     IF TruthyString(dataObj, "topic")
                                     THEN dataObj.topic ELSE "application-event",
                                     IF TruthyString(dataObj.payload, "action")
                                     THEN dataObj.payload.action ELSE "crashed"),
                          dataObj.payload), <<>>)

\* the broadcast branch: reading payload.action of a missing payload throws
broadcastBranch(tbl, lsn, dataObj) ==
    IF ~_has(dataObj, "payload")
    THEN Throw(tbl, <<>>, <<>>)
    ELSE IF isValidBroadcast(dataObj)
         THEN Return(tbl, emit(lsn, Route("broadcast", dataObj.topic, dataObj.payload.action),
                               dataObj.payload), <<>>)
         ELSE Return(tbl, <<>>, <<"RVMMessageBus received an invalid broadcast message">>)

\* a try block that looks at the broadcast flag before the table
tryBlock_broadcastFirst(tbl, lsn, data) ==
    IF data.raw /= "json"
    THEN Throw(tbl, <<>>, <<>>)
    ELSE LET dataObj == data.value
         IN IF ~_has(dataObj, "messageId")
            THEN Return(tbl, <<>>, <<"messageId not found in response.">>)
            ELSE IF isBroadcastMessage(dataObj)
                 THEN broadcastBranch(tbl, lsn, dataObj)
                 ELSE IF weWereExpectingThisResponse(tbl, dataObj.messageId)
                      THEN responseBranch(tbl, dataObj.messageId, dataObj)
                      ELSE Return(tbl, <<>>, <<"has no one waiting for this response, nor was it a broadcast">>)

\* the try block: JSON.parse(data), then the routing
tryBlock(tbl, lsn, data) ==
    IF data.raw /= "json"
    THEN Throw(tbl, <<>>, <<>>)
    ELSE LET dataObj == data.value
         IN IF ~_has(dataObj, "messageId")
            THEN Return(tbl, <<>>, <<"messageId not found in response.">>)
            ELSE IF weWereExpectingThisResponse(tbl, dataObj.messageId)
                 THEN responseBranch(tbl, dataObj.messageId, dataObj)
                 ELSE IF isBroadcastMessage(dataObj)
                      THEN broadcastBranch(tbl, lsn, dataObj)
                      ELSE Return(tbl, <<>>, <<"has no one waiting for this response, nor was it a broadcast">>)

\* a catch block that logs and rethrows
catchBlock_rethrows(r) ==
    IF r.thrown THEN [r EXCEPT !.log = Append(@, "data must be valid JSON")] ELSE r

\* catch (e): log it; nothing is rethrown
catchBlock(r) ==
    IF r.thrown
    THEN [r EXCEPT !.log = Append(@, "data must be valid JSON"), !.thrown = FALSE]
    ELSE r

\* how often calls invokes the callback registered under id
callsOf(calls, id) ==
    Len(SelectSeq(calls, LAMBDA c : c.kind = "callback" /\ c.id = id))

\* how often calls invokes the callback handed to the downloadRuntime call
\* whose request is id
downloadCallsOf(calls, id) ==
    Len(SelectSeq(calls, LAMBDA c : c.kind = "downloadCallback" /\ c.id = id))

\* the transport emits 'message' with data
onMessage(data) ==
    LET r == catchBlock(tryBlock(messageIdToCallback, listeners, data))
    IN /\ \A id \in DOMAIN count : count[id] + callsOf(r.calls, id) <= MaxCalls
       /\ messageIdToCallback' = r.table
       /\ count' = [id \in DOMAIN count |-> count[id] + callsOf(r.calls, id)]
       /\ downloads' = [id \in DOMAIN downloads |->
                            [downloads[id] EXCEPT
                                !.invoked = @ + downloadCallsOf(r.calls, id)]]
       /\ out' = [op |-> "message", input |-> data, before |-> messageIdToCallback,
                  calls |-> r.calls, log |-> r.log, escaped |-> r.thrown]
       /\ UNCHANGED <<guidCount, timers, listeners, transportLog, fetch>>

(***************************************************************************)
(* The timer armed by recordCallbackInfo, and EventEmitter's on.           *)
(***************************************************************************)
\* `this` inside the function () {...} handed to setTimeout: the timer's own
\* Timeout object, which has no messageIdToCallback property (the function
\* is no arrow function, so it does not see the bus as `this`)
TimeoutThis == [js |-> "object", name |-> "Timeout"]

\* the setTimeout callback of timer t
timerCallback(t) ==
    LET self == TimeoutThis
        table == IF _has(self, "messageIdToCallback") THEN messageIdToCallback ELSE <<>>
        notice == ("time-to-live-expiration" :> t.timeToLiveInSeconds)
                      @@ ("envelope" :> t.envelope)
        call == <<[kind |-> "callback", id |-> t.messageId, arg |-> notice]>>
    IN /\ t \in timers
       /\ timers' = timers \ {t}
       /\ IF _has(table, t.messageId)
          THEN LET r == invoke(table[t.messageId], t.messageId, notice)
               IN /\ messageIdToCallback' =
                         IF r.thrown THEN table ELSE Delete(table, t.messageId)
                  /\ count' = [id \in DOMAIN count |-> count[id] + callsOf(call, id)]
                  /\ downloads' = [id \in DOMAIN downloads |->
                                       [downloads[id] EXCEPT
                                           !.invoked = @ + downloadCallsOf(r.calls, id)]]
                  /\ out' = [op |-> "timer", input |-> t, before |-> messageIdToCallback,
                             calls |-> call \o r.calls, log |-> <<>>,
                             escaped |-> r.thrown]
          ELSE /\ UNCHANGED <<messageIdToCallback, count, downloads>>
               /\ out' = [op |-> "timer", input |-> t, before |-> messageIdToCallback,
                          calls |-> <<>>, log |-> <<>>, escaped |-> FALSE]
       /\ UNCHANGED <<guidCount, listeners, transportLog, fetch>>

\* bus.on(route.rvmMessageBus('broadcast', topic, action), listener)
on(topic, action) ==
    /\ Len(listeners) < MaxListeners
    /\ listeners' = Append(listeners, Route("broadcast", topic, action))
    /\ out' = [op |-> "on", input |-> Route("broadcast", topic, action),
               before |-> messageIdToCallback, calls |-> <<>>, log |-> <<>>,
               escaped |-> FALSE]
    /\ UNCHANGED <<messageIdToCallback, guidCount, timers, count, transportLog, downloads,
                   fetch>>

(***************************************************************************)
(* downloadRuntime.                                                        *)
(***************************************************************************)
\* the options of a download: as DownloadRuntimeOptions declares them, and
\* with a timeToLive, which Object.assign copies into the request as well
DownloadOptions == [js |-> "object", downloadId |-> "d1", version |-> "1.2.3",
                    sourceUrl |-> "s"]

DownloadOptionsTTL == [js |-> "object", downloadId |-> "d2", version |-> "1.2.3",
                       sourceUrl |-> "s", timeToLive |-> Num(2)]

Options == {DownloadOptions, DownloadOptionsTTL}

\* the callbacks handed to downloadRuntime: one that returns, one that throws
DownloadCallbacks == {Callback, ThrowingCallback}

\* Object.assign({topic: 'application', action: 'runtime-download'}, options)
rvmMessageOf(options) ==
    options @@ [topic |-> "application", action |-> "runtime-download"]

\* a downloadRuntime that leaves a failed publish unreported
publishFailed_silent(callback, messageId, publishSuccess) ==
    [calls |-> <<>>, thrown |-> FALSE]

\* if (!publishSuccess) callback(new Error('RVM Message failed.'))
publishFailed(callback, messageId, publishSuccess) ==
    IF ~publishSuccess
    THEN [calls |-> <<[kind |-> "downloadCallback", id |-> messageId,
                       args |-> <<Error("RVM Message failed.")>>]>>,
          thrown |-> callback.throws]
    ELSE [calls |-> <<>>, thrown |-> FALSE]

\* the incoming objects of the download scenarios: for every GUID a message
\* without payload, with an empty payload, with payload.error 'disk full'
\* and with payload.error ''
DownloadResponses ==
    {o @@ ("messageId" :> id) :
        o \in {Obj, [js |-> "object", payload |-> Obj],
               [js |-> "object", payload |-> [js |-> "object", error |-> "disk full"]],
               [js |-> "object", payload |-> [js |-> "object", error |-> ""]]},
        id \in 1..MaxPublish}

DownloadData == {[raw |-> "json", value |-> o] : o \in DownloadResponses}

\* downloadRuntime(options, callback) where the transport answers sendResult
downloadRuntime(options, callback, sendResult) ==
    LET rvmMessage == rvmMessageOf(options)
        envelope == envelopeOf(rvmMessage, generateGUID(guidCount))
        recorded == recordCallbackInfo(messageIdToCallback, timers,
                                       DownloadRuntimeCallback(callback),
                                       Get(rvmMessage, "timeToLive"), envelope)
        handed == [envelope |-> envelope,
                   registered |-> _has(recorded.table, envelope.messageId)]
        publishSuccess == publishResult(sendResult)
        failed == publishFailed(callback, envelope.messageId, publishSuccess)
    IN /\ isObjectMsg(rvmMessage)
       /\ guidCount < MaxPublish
       /\ guidCount' = guidCount + 1
       /\ messageIdToCallback' = recorded.table
       /\ timers' = recorded.timers
       /\ transportLog' = Append(transportLog, handed)
       /\ downloads' = (envelope.messageId :>
                            [publishSuccess |-> publishSuccess,
                             invoked |-> Len(failed.calls)]) @@ downloads
       /\ out' = [op |-> "downloadRuntime",
                  input |-> [options |-> options, callback |-> callback],
                  before |-> messageIdToCallback, publishSuccess |-> publishSuccess,
                  sent |-> <<handed>>, armed |-> recorded.timers \ timers,
                  calls |-> failed.calls, log |-> <<>>, escaped |-> failed.thrown]
       /\ UNCHANGED <<listeners, count, fetch>>

(***************************************************************************)
(* registerLicenseInfo.                                                    *)
(***************************************************************************)
\* a string value of a license field
String(s) == [js |-> "string", s |-> s]

\* RVMMessageBus.sessionId, generated once when the class is defined
SessionId == String("session-guid")

\* the default data of the 'started' event
DefaultData ==
    [js |-> "object",
     parentApp |-> [js |-> "object", uuid |-> Null],
     licenseKey |-> Null,
     client |-> [js |-> "object", type |-> Null, version |-> Null, pid |-> Null],
     uuid |-> Null]

\* what callers hand in as licInfo: nothing to override, a license key only,
\* a client only (type and version, as LicenseInfo declares it), and a
\* value for every default field
LicenseInfos ==
    {Obj,
     [js |-> "object", data |-> [js |-> "object", licenseKey |-> String("key")]],
     [js |-> "object",
      data |-> [js |-> "object",
                client |-> [js |-> "object", type |-> String("js"),
                            version |-> String("9.61")]]],
     [js |-> "object",
      data |-> [js |-> "object",
                parentApp |-> [js |-> "object", uuid |-> String("parent")],
                licenseKey |-> String("key"),
                client |-> [js |-> "object", type |-> String("js"),
                            version |-> String("9.61"), pid |-> String("77")],
                uuid |-> String("app")]]}

\* the sourceUrl argument: left out, or a string
SourceUrls == {Undefined, String("app.json")}

\* Object.assign({topic, type, sourceUrl, sessionId, data}, licInfo): the
\* properties of licInfo replace those of the defaults, data as a whole
licensePayload(licInfo, sourceUrl) ==
    licInfo @@ [js |-> "object", topic |-> "application-event", type |-> "started",
                sourceUrl |-> IF sourceUrl.js = "undefined" THEN Null ELSE sourceUrl,
                sessionId |-> SessionId, data |-> DefaultData]

\* registerLicenseInfo(licInfo, sourceUrl) where the transport answers
\* sendResult
registerLicenseInfo(licInfo, sourceUrl, sendResult) ==
    LET payload == licensePayload(licInfo, sourceUrl)
        envelope == envelopeOf(payload, generateGUID(guidCount))
        recorded == recordCallbackInfo(messageIdToCallback, timers, Noop,
                                       Get(payload, "timeToLive"), envelope)
        handed == [envelope |-> envelope,
                   registered |-> _has(recorded.table, envelope.messageId)]
    IN /\ isObjectMsg(payload)
       /\ guidCount < MaxPublish
       /\ guidCount' = guidCount + 1
       /\ messageIdToCallback' = recorded.table
       /\ timers' = recorded.timers
       /\ transportLog' = Append(transportLog, handed)
       /\ out' = [op |-> "registerLicenseInfo",
                  input |-> [licInfo |-> licInfo, sourceUrl |-> sourceUrl],
                  before |-> messageIdToCallback, sendResult |-> sendResult,
                  ret |-> publishResult(sendResult),
                  sent |-> <<handed>>, armed |-> recorded.timers \ timers,
                  calls |-> <<>>, log |-> <<>>, escaped |-> FALSE]
       /\ UNCHANGED <<listeners, count, downloads, fetch>>

(***************************************************************************)
(* convert_options.js: fetchOptions, with readFile, getURL and             *)
(* fetchLocalConfig.  A call is followed by the completion of the read it  *)
(* started, and that by the completion of the read of the local config     *)
(* when the call falls back on it.                                         *)
(***************************************************************************)
\* a string: its text without the double quotes, whether it had any, and
\* what common/regex takes it for (a URL, a file URI, a path)
Str(s, quoted, form) == [js |-> "string", s |-> s, quoted |-> quoted, form |-> form]

\* the value of a command line switch that was given without a value
True == [js |-> "boolean", b |-> TRUE]

\* a value as the condition of an `if` or the left side of ||
Truthy(v) ==
    CASE v.js = "string" -> v.s /= "" \/ v.quoted
      [] v.js = "boolean" -> v.b
      [] v.js = "number" -> v.n /= 0
      [] v.js \in {"undefined", "null"} -> FALSE
      [] OTHER -> TRUE

\* the values of --startup-url: a URL, a quoted file URI, a path, a pair of
\* quotes with nothing between them, no value
StartupUrls ==
    {Str("http://host/app.json", FALSE, "url"), Str("file:///C:/app.json", TRUE, "uri"),
     Str("app.json", FALSE, "path"), Str("", TRUE, "path"), True}

LocalStartupUrl == Str("local.json", FALSE, "path")

\* argo: without and with startup-url, with config, with both, each without
\* and with local-startup-url
Argos ==
    LET config == ("config" :> Str("app.json", FALSE, "path"))
        primary == {Obj, config @@ Obj, ("startup-url" :> True) @@ config @@ Obj}
                       \cup {("startup-url" :> u) @@ Obj : u \in StartupUrls}
    IN primary \cup {("local-startup-url" :> LocalStartupUrl) @@ a : a \in primary}

\* what a read finds: no file (or no answer from the server), text that is
\* no JSON, JSON text
Missing == [file |-> "missing"]

Text == [file |-> "text"]

Json(value) == [file |-> "json", value |-> value]

\* the configs a JSON file can hold: null, an object, an object with
\* offlineAccess true or false
Configs == {Null, Obj, [js |-> "object", offlineAccess |-> TRUE],
            [js |-> "object", offlineAccess |-> FALSE]}

Files == {Missing, Text} \cup {Json(c) : c \in Configs}

\* what the fetch of startup-url or config finds
PrimaryFiles == {Missing, Text, Json(Obj)}

\* the onComplete and onError handed to fetchOptions
OnCompletes == {Callback, ThrowingCallback}

OnErrors == {Callback, Undefined}

\* a fetchOptions that takes every local config for an offline one
offlineAccessOf_always(localConfigPath, file) == TRUE

\* lines 316-326: JSON.parse(fs.readFileSync(localConfigPath)) and its
\* offlineAccess; whatever is thrown on the way is logged
offlineAccessOf(localConfigPath, file) ==
    /\ Truthy(localConfigPath)
    /\ file.file = "json"
    /\ file.value.js = "object"
    /\ TruthyFlag(file.value, "offlineAccess")

\* argo['startup-url'] || argo['config'], '' unless a string, without quotes
configUrlOf(argo) ==
    LET v == IF Truthy(Get(argo, "startup-url"))
             THEN argo["startup-url"] ELSE Get(argo, "config")
    IN IF v.js /= "string" THEN Str("", FALSE, "path") ELSE [v EXCEPT !.quoted = FALSE]

\* regex.isURL, regex.isURI, regex.uriToPath
isURL(v) == v.form = "url"

isURI(v) == v.form = "uri"

uriToPath(v) == [v EXCEPT !.form = "path"]

\* no fetchOptions call yet
Idle == [pc |-> "idle", started |-> <<>>, calls |-> <<>>, escaped |-> FALSE]

\* onError(err) in the call f: a TypeError when onError is no function
callOnError(f, err) ==
    IF f.input.onError.js = "function"
    THEN [f EXCEPT !.pc = "done", !.calls = Append(@, [fn |-> "onError", arg |-> err])]
    ELSE [f EXCEPT !.pc = "done", !.escaped = TRUE]

\* onComplete({configObject, configUrl}) in the call f
callOnComplete(f, configObject, configUrl) ==
    [f EXCEPT !.pc = "done",
              !.calls = Append(@, [fn |-> "onComplete",
                                   arg |-> [configObject |-> configObject,
                                            configUrl |-> configUrl]])]

\* fetchLocalConfig(localConfigPath, onComplete, onError): starts readFile
fetchLocalConfig(f) ==
    [f EXCEPT !.pc = "local",
              !.started = Append(@, [io |-> "readFile",
                                     target |-> Get(f.input.argo, "local-startup-url")])]

\* errorCallback(err) of the call f
errorCallback(f, err) ==
    LET failed == [f EXCEPT !.failure = err]
    IN IF f.offlineAccess THEN fetchLocalConfig(failed) ELSE callOnError(failed, err)

\* fetchOptions(argo, onComplete, onError) while local-startup-url holds
\* localFile (which is not looked at when argo names no local-startup-url)
fetchOptions(argo, onComplete, onError, localFile) ==
    LET localConfigPath == Get(argo, "local-startup-url")
        configUrl == configUrlOf(argo)
        f == [pc |-> "call",
              input |-> [argo |-> argo, onComplete |-> onComplete, onError |-> onError,
                         localFile |-> localFile],
              offlineAccess |-> offlineAccessOf(localConfigPath, localFile),
              configUrl |-> configUrl, started |-> <<>>, calls |-> <<>>,
              escaped |-> FALSE, failure |-> Undefined,
              primary |-> [file |-> "none"], local |-> [file |-> "none"]]
    IN /\ fetch.pc = "idle"
       /\ Truthy(localConfigPath) \/ localFile = Missing
       /\ fetch' =
              IF configUrl.s = ""
              THEN IF onError.js = "function"
                   THEN callOnError(f, Error("missing runtime argument --startup-url"))
                   ELSE [f EXCEPT !.pc = "done"]
              ELSE IF isURL(configUrl)
                   THEN [f EXCEPT !.pc = "primary",
                                  !.started = <<[io |-> "getURL", target |-> configUrl]>>]
                   ELSE [f EXCEPT !.pc = "primary",
                                  !.started = <<[io |-> "readFile",
                                                 target |-> IF isURI(configUrl)
                                                            THEN uriToPath(configUrl)
                                                            ELSE configUrl]>>]
       /\ UNCHANGED <<messageIdToCallback, guidCount, timers, listeners, count,
                      transportLog, downloads, out>>

\* getURL's 'fetch-complete' handler: done(config) is inside the try block,
\* so what onComplete throws is reported as a parse error
getURLComplete(f, url, result) ==
    IF result.file = "missing"
    THEN errorCallback(f, Error("Could not retrieve " \o url.s))
    ELSE IF result.file = "text"
         THEN errorCallback(f, Error("Error parsing JSON from " \o url.s))
         ELSE IF f.input.onComplete.throws
              THEN errorCallback(callOnComplete(f, result.value, url),
                                 Error("Error parsing JSON from " \o url.s))
              ELSE callOnComplete(f, result.value, url)

\* readFile's onError parameter: fetchOptions hands it errorCallback,
\* fetchLocalConfig the caller's onError
readFileError(f, onError, err) ==
    IF onError = "errorCallback" THEN errorCallback(f, err) ELSE callOnError(f, err)

\* readFile's fs.readFile callback: done(config) is outside the try block
readFileComplete(f, configUrl, result, onError) ==
    IF result.file = "missing"
    THEN readFileError(f, onError, Error("ENOENT: no such file or directory"))
    ELSE IF result.file = "text"
         THEN readFileError(f, onError, Error("Unexpected token"))
         ELSE [callOnComplete(f, result.value, configUrl)
                  EXCEPT !.escaped = f.input.onComplete.throws]

\* the read started by fetchOptions completes with result
primaryDone(result) ==
    LET f == [fetch EXCEPT !.primary = result]
    IN /\ fetch.pc = "primary"
       /\ fetch' = IF fetch.started[1].io = "getURL"
                   THEN getURLComplete(f, fetch.configUrl, result)
                   ELSE readFileComplete(f, fetch.configUrl, result, "errorCallback")
       /\ UNCHANGED <<messageIdToCallback, guidCount, timers, listeners, count,
                      transportLog, downloads, out>>

\* the read started by fetchLocalConfig completes with result
localDone(result) ==
    LET f == [fetch EXCEPT !.local = result]
    IN /\ fetch.pc = "local"
       /\ fetch' = readFileComplete(f, Get(fetch.input.argo, "local-startup-url"), result,
                                    "onError")
       /\ UNCHANGED <<messageIdToCallback, guidCount, timers, listeners, count,
                      transportLog, downloads, out>>

(***************************************************************************)
(* convert_options.js: convertToElectron, the part that validates the      *)
(* options against five0BaseOptions and computes height and width.  It     *)
(* keeps no state: a call is an input and the options it returns.          *)
(***************************************************************************)
\* maxHeight and maxWidth of a window without an upper bound
NoMax == -1

\* five0BaseOptions(): the options the size computation reads, and one of
\* the nested ones
five0BaseOptions ==
    [js |-> "object",
     cornerRounding |-> [js |-> "object", height |-> Num(0), width |-> Num(0)],
     defaultHeight |-> Num(500), defaultWidth |-> Num(800),
     maxHeight |-> Num(NoMax), maxWidth |-> Num(NoMax),
     minHeight |-> Num(0), minWidth |-> Num(0)]

\* what a caller gives as a height or width: a number, or a string
Sizes == {Num(n) : n \in (0 - MaxSize)..MaxSize} \cup {String("300")}

\* the options of a caller: any of minHeight, maxHeight, defaultHeight, each
\* left out or given, and the three widths all left out or all given as
\* numbers
WindowOptions ==
    LET with(key, values) == {Obj} \cup {(key :> v) @@ Obj : v \in values}
        numbers == {s \in Sizes : s.js = "number"}
        heights == {a @@ b @@ c : a \in with("minHeight", Sizes),
                                  b \in with("maxHeight", Sizes),
                                  c \in with("defaultHeight", Sizes)}
        widths == {Obj} \cup
                  {[js |-> "object", minWidth |-> a, maxWidth |-> b, defaultWidth |-> c] :
                       a \in numbers, b \in numbers, c \in {Num(1), Num(MaxSize)}}
    IN {h @@ w : h \in heights, w \in widths}

\* validate(base, user): for every key of base the user's value when it has
\* the type of the base's, the base's otherwise; objects key by key
RECURSIVE validate(_, _)
validate(base, user) ==
    [key \in DOMAIN base |->
        IF key = "js"
        THEN base[key]
        ELSE IF base[key].js = "object"
             THEN validate(base[key],
                           IF Truthy(Get(user, key)) THEN user[key] ELSE Obj)
             ELSE IF Get(user, key).js /= base[key].js THEN base[key] ELSE user[key]]

\* validateOptions(options), for options without rawWindowOpen
validateOptions(options) == validate(five0BaseOptions, options)

\* a size computation that knows no upper bound
clamp_noMax(min, max, default) ==
    IF default < min THEN min ELSE default

\* lines 228-234 and 239-245: min when default is below it, else max when
\* there is one and default is above it, else default
clamp(min, max, default) ==
    IF default < min
    THEN min
    ELSE IF max /= NoMax /\ default > max THEN max ELSE default

\* the options convertToElectron(options) returns where isInContainer
\* ('openfin') is inContainer
convertedOptions(options, inContainer) ==
    LET newOptions == validateOptions(options)
    IN IF inContainer
       THEN [height |-> Num(clamp(newOptions.minHeight.n, newOptions.maxHeight.n,
                                  newOptions.defaultHeight.n)),
             width |-> Num(clamp(newOptions.minWidth.n, newOptions.maxWidth.n,
                                 newOptions.defaultWidth.n))] @@ newOptions
       ELSE newOptions

\* convertToElectron(options) is called and returns
convertToElectron ==
    /\ out.op = "call"
    /\ out' = [op |-> "convertToElectron", input |-> out.input,
               ret |-> convertedOptions(out.input.options, out.input.inContainer)]
    /\ UNCHANGED <<messageIdToCallback, guidCount, timers, listeners, count,
                   transportLog, downloads, fetch>>

(***************************************************************************)
(* The bus after its constructor, and the tasks of the event loop.         *)
(***************************************************************************)
Init ==
    /\ messageIdToCallback = <<>>
    /\ guidCount = 0
    /\ timers = {}
    /\ listeners = <<>>
    /\ count = [id \in 1..MaxPublish |-> 0]
    /\ transportLog = <<>>
    /\ downloads = <<>>
    /\ fetch = Idle
    /\ out = [op |-> "constructor", before |-> <<>>, calls |-> <<>>, log |-> <<>>,
              escaped |-> FALSE]

Next ==
    \/ \E msg \in Msgs, callback \in Callbacks, sendResult \in BOOLEAN :
           publish(msg, callback, sendResult)
    \/ \E data \in Data : onMessage(data)
    \/ \E t \in timers : timerCallback(t)
    \/ \E topic \in ListenedTopics, action \in Actions : on(topic, action)

Spec == Init /\ [][Next]_vars

\* the bus used for downloads only: downloadRuntime, the responses to it and
\* the timers it arms
DownloadNext ==
    \/ \E options \in Options, callback \in DownloadCallbacks, sendResult \in BOOLEAN :
           downloadRuntime(options, callback, sendResult)
    \/ \E data \in DownloadData : onMessage(data)
    \/ \E t \in timers : timerCallback(t)

DownloadSpec == Init /\ [][DownloadNext]_vars

\* the bus used for license registrations and the responses to them
LicenseNext ==
    \/ \E licInfo \in LicenseInfos, sourceUrl \in SourceUrls, sendResult \in BOOLEAN :
           registerLicenseInfo(licInfo, sourceUrl, sendResult)
    \/ \E data \in DownloadData : onMessage(data)

LicenseSpec == Init /\ [][LicenseNext]_vars

\* a call of convertToElectron about to be made, with its options
ConvertInit ==
    /\ messageIdToCallback = <<>>
    /\ guidCount = 0
    /\ timers = {}
    /\ listeners = <<>>
    /\ count = [id \in 1..MaxPublish |-> 0]
    /\ transportLog = <<>>
    /\ downloads = <<>>
    /\ fetch = Idle
    /\ \E options \in WindowOptions, inContainer \in BOOLEAN :
           out = [op |-> "call",
                  input |-> [options |-> options, inContainer |-> inContainer]]

ConvertNext == convertToElectron

ConvertSpec == ConvertInit /\ [][ConvertNext]_vars

\* one fetchOptions call and the completions of its reads
FetchNext ==
    \/ \E argo \in Argos, onComplete \in OnCompletes, onError \in OnErrors,
          localFile \in Files : fetchOptions(argo, onComplete, onError, localFile)
    \/ \E result \in PrimaryFiles : primaryDone(result)
    \/ \E result \in Files : localDone(result)

FetchSpec == Init /\ [][FetchNext]_vars

(***************************************************************************)
(* The claims.  Each is stated of the last task (out): of its input, of    *)
(* the table it found (out.before) and of what it did.                     *)
(***************************************************************************)
\* the last task was the 'message' handler and its data parsed as JSON
Received == out.op = "message" /\ out.input.raw = "json"

\* ... to an object that has a messageId
ReceivedId == Received /\ "messageId" \in DOMAIN out.input.value

\* ... under which a request was pending when the message arrived
ReceivedResponse == ReceivedId /\ out.input.value.messageId \in DOMAIN out.before

\* invocations of the callback of request id before the last task
countBefore(id) == count[id] - callsOf(out.calls, id)

\* o has every field of a broadcast: the flag, a topic, a payload, an action
CompleteBroadcast(o) ==
    /\ TruthyFlag(o, "broadcast")
    /\ TruthyString(o, "topic")
    /\ "payload" \in DOMAIN o
    /\ TruthyString(o.payload, "action")

\* C1: when a message arrives whose messageId has a pending entry, the
\* callback of that request is invoked with the message, it has then been
\* invoked exactly once, and the entry is gone from the table; a later
\* message with that messageId and no broadcast flag invokes nothing.
C1_ResponseDeliveredOnceAndRemoved ==
    /\ ReceivedResponse =>
           LET id == out.input.value.messageId
           IN /\ out.calls = <<[kind |-> "callback", id |-> id, arg |-> out.input.value]>>
              /\ count[id] = 1
              /\ id \notin DOMAIN messageIdToCallback
    /\ (/\ ReceivedId
        /\ out.input.value.messageId \in DOMAIN count
        /\ ~TruthyFlag(out.input.value, "broadcast")
        /\ countBefore(out.input.value.messageId) >= 1) => out.calls = <<>>

\* C2: when the timer of a request with timeToLive T fires and no response
\* has arrived (the entry is pending, the callback never invoked), the
\* callback is invoked once with {'time-to-live-expiration': T, envelope}
\* and the entry is removed.
C2_TimerDeliversExpirationNotice ==
    (/\ out.op = "timer"
     /\ out.input.messageId \in DOMAIN out.before
     /\ countBefore(out.input.messageId) = 0) =>
        LET id == out.input.messageId
            notice == ("time-to-live-expiration" :> out.input.timeToLiveInSeconds)
                          @@ ("envelope" :> out.input.envelope)
        IN /\ out.calls = <<[kind |-> "callback", id |-> id, arg |-> notice]>>
           /\ count[id] = 1
           /\ id \notin DOMAIN messageIdToCallback

\* the timer of request id was armed and has fired
Expired(id) ==
    /\ \E i \in 1..Len(transportLog) :
           /\ transportLog[i].envelope.messageId = id
           /\ "timeToLive" \in DOMAIN transportLog[i].envelope.payload
    /\ \A t \in timers : t.messageId /= id

\* C3: no request's callback is ever invoked more than once: a message that
\* arrives after the request's timer has fired invokes no callback, and a
\* timer that fires after the callback was invoked invokes nothing.
C3_AtMostOneDelivery ==
    /\ \A id \in DOMAIN count : count[id] <= 1
    /\ (ReceivedId /\ Expired(out.input.value.messageId)) =>
           \A i \in 1..Len(out.calls) : out.calls[i].kind /= "callback"
    /\ (out.op = "timer" /\ countBefore(out.input.messageId) >= 1) => out.calls = <<>>

\* C4: publish of null or of a value that is no object returns false, hands
\* nothing to the transport, arms no timer and leaves the table as it was.
C4_InvalidPublishRejected ==
    (out.op = "publish" /\ out.input.msg.js /= "object") =>
        /\ out.ret = FALSE
        /\ out.sent = <<>>
        /\ out.armed = {}
        /\ messageIdToCallback = out.before

C4_Witness ==
    /\ out.op = "publish"
    /\ out.input.msg = Null
    /\ out.ret = FALSE
    /\ DOMAIN messageIdToCallback /= {}

\* C5: every envelope was handed to the transport with its messageId
\* already in the table, and a request that was sent stays in the table as
\* long as its callback has not been invoked: the first response finds it.
C5_RegisteredWhenHanded ==
    /\ \A i \in 1..Len(transportLog) :
           /\ transportLog[i].registered
           /\ count[transportLog[i].envelope.messageId] = 0
                  => transportLog[i].envelope.messageId \in DOMAIN messageIdToCallback
    /\ out.op = "publish" => \A i \in 1..Len(out.sent) : out.sent[i].registered

C5_Witness ==
    /\ ReceivedResponse
    /\ Len(out.calls) = 1
    /\ \E i \in 1..Len(transportLog) :
           /\ transportLog[i].envelope.messageId = out.input.value.messageId
           /\ transportLog[i].registered

\* C6: with several requests pending, a message with the messageId X of one
\* of them invokes the callback of X and nothing else, removes no entry but
\* that of X, and leaves every other entry in the table with its callback,
\* not invoked.
C6_ResponseTouchesOnlyItsEntry ==
    (ReceivedResponse /\ Cardinality(DOMAIN out.before) >= 2) =>
        LET X == out.input.value.messageId
        IN /\ Len(out.calls) = 1
           /\ out.calls[1].kind = "callback"
           /\ out.calls[1].id = X
           /\ DOMAIN messageIdToCallback \subseteq DOMAIN out.before
           /\ \A id \in DOMAIN out.before \ {X} :
                  /\ id \in DOMAIN messageIdToCallback
                  /\ messageIdToCallback[id] = out.before[id]
                  /\ count[id] = countBefore(id)

C6_Witness ==
    /\ ReceivedResponse
    /\ Cardinality(DOMAIN out.before) = 2
    /\ Cardinality(DOMAIN messageIdToCallback) = 1
    /\ out.input.value.messageId \notin DOMAIN messageIdToCallback

\* C7: a complete broadcast whose messageId has no pending entry invokes
\* every listener of the channel of ('broadcast', topic, action) once, with
\* the message's payload, and nothing else: no listener of another channel,
\* no callback of a request; the table stays as it was.
C7_BroadcastReachesItsChannel ==
    (ReceivedId /\ ~ReceivedResponse /\ CompleteBroadcast(out.input.value)) =>
        LET o == out.input.value
            channel == Route("broadcast", o.topic, o.payload.action)
        IN /\ \A i \in 1..Len(out.calls) :
                  /\ out.calls[i].kind = "listener"
                  /\ listeners[out.calls[i].id] = channel
                  /\ out.calls[i].arg = o.payload
           /\ \A l \in 1..Len(listeners) :
                  listeners[l] = channel
                      => Cardinality({i \in 1..Len(out.calls) : out.calls[i].id = l}) = 1
           /\ messageIdToCallback = out.before
           /\ \A id \in DOMAIN count : count[id] = countBefore(id)

C7_Witness ==
    /\ ReceivedId
    /\ ~ReceivedResponse
    /\ CompleteBroadcast(out.input.value)
    /\ Len(listeners) = 2
    /\ Len(out.calls) = 1
    /\ DOMAIN out.before /= {}

\* C8: a message flagged broadcast, with no pending entry for its messageId,
\* that lacks the topic, the payload or the payload's action invokes no
\* listener and no callback, lets no exception out of the handler and leaves
\* the table as it was.
C8_MalformedBroadcastDropped ==
    (/\ ReceivedId
     /\ ~ReceivedResponse
     /\ TruthyFlag(out.input.value, "broadcast")
     /\ ~CompleteBroadcast(out.input.value)) =>
        /\ out.calls = <<>>
        /\ ~out.escaped
        /\ messageIdToCallback = out.before

C8_Witness ==
    /\ ReceivedId
    /\ ~ReceivedResponse
    /\ TruthyFlag(out.input.value, "broadcast")
    /\ "payload" \notin DOMAIN out.input.value
    /\ ~out.escaped
    /\ listeners /= <<>>
    /\ DOMAIN out.before /= {}

\* C9: data that is no JSON lets no exception out of the handler, invokes
\* nothing and changes nothing: table, timers and listeners are as before,
\* so whatever was pending can still be resolved.
C9_InvalidJsonContained ==
    [][(out'.op = "message" /\ out'.input.raw /= "json") =>
           /\ ~out'.escaped
           /\ out'.calls = <<>>
           /\ UNCHANGED <<messageIdToCallback, guidCount, timers, listeners, count,
                          transportLog, downloads>>]_vars

C9_Witness ==
    /\ out.op = "message"
    /\ out.input.raw = "not-json"
    /\ ~out.escaped
    /\ DOMAIN messageIdToCallback /= {}
    /\ timers /= {}
    /\ listeners /= <<>>

\* C10: a message that parsed, and that has no messageId or has a messageId
\* with no pending entry and no broadcast flag, invokes no callback and no
\* listener and leaves the table as it was.
C10_UnroutableDropped ==
    (Received /\ (~ReceivedId
                     \/ (~ReceivedResponse /\ ~TruthyFlag(out.input.value, "broadcast")))) =>
        /\ out.calls = <<>>
        /\ ~out.escaped
        /\ messageIdToCallback = out.before

C10_Witness ==
    /\ ReceivedId
    /\ ~ReceivedResponse
    /\ ~TruthyFlag(out.input.value, "broadcast")
    /\ TruthyString(out.input.value, "topic")
    /\ \E l \in 1..Len(listeners) :
           listeners[l] = Route("broadcast", out.input.value.topic,
                                out.input.value.payload.action)
    /\ out.calls = <<>>
    /\ DOMAIN out.before /= {}

\* C11: when a message with a payload object arrives for the pending request
\* of a downloadRuntime call whose publish returned true, the caller's
\* callback is invoked once by that message: with no argument when
\* payload.error is absent or '', with an Error whose message is
\* payload.error otherwise; no exception leaves the handler.
C11_DownloadResponseReported ==
    (/\ ReceivedResponse
     /\ out.input.value.messageId \in DOMAIN downloads
     /\ downloads[out.input.value.messageId].publishSuccess
     /\ "payload" \in DOMAIN out.input.value) =>
        LET id == out.input.value.messageId
            payload == out.input.value.payload
            args == IF "error" \in DOMAIN payload /\ payload.error /= ""
                    THEN <<[js |-> "Error", message |-> payload.error]>>
                    ELSE <<>>
        IN /\ out.calls = <<[kind |-> "callback", id |-> id, arg |-> out.input.value],
                            [kind |-> "downloadCallback", id |-> id, args |-> args]>>
           /\ ~out.escaped

C11_Witness ==
    /\ ReceivedResponse
    /\ out.input.value.messageId \in DOMAIN downloads
    /\ downloads[out.input.value.messageId].publishSuccess
    /\ "payload" \in DOMAIN out.input.value
    /\ "error" \in DOMAIN out.input.value.payload
    /\ out.input.value.payload.error = "disk full"
    /\ Len(out.calls) = 2
    /\ out.calls[2].args = <<Error("disk full")>>

\* C12: a downloadRuntime call whose publish returns false invokes the
\* caller's callback once, with Error('RVM Message failed.'), within the
\* call itself: no message and no timer is involved.
C12_FailedPublishReportedSynchronously ==
    (out.op = "downloadRuntime" /\ ~out.publishSuccess) =>
        LET id == out.sent[1].envelope.messageId
        IN /\ out.calls = <<[kind |-> "downloadCallback", id |-> id,
                             args |-> <<[js |-> "Error",
                                         message |-> "RVM Message failed."]>>]>>
           /\ downloads[id].invoked = 1

C12_Witness ==
    /\ out.op = "downloadRuntime"
    /\ ~out.publishSuccess
    /\ Len(out.calls) = 1
    /\ out.calls[1].kind = "downloadCallback"
    /\ timers /= {}

\* C19: the callback handed to a downloadRuntime call is invoked at most
\* once, whatever follows the call: a rejected send, one or more messages
\* with the request's messageId, the timer.
C19_DownloadCallbackAtMostOnce ==
    \A id \in DOMAIN downloads : downloads[id].invoked <= 1

\* the last task was a publish of an object, which reached the transport
Published == out.op = "publish" /\ out.input.msg.js = "object"

\* C13: publish of an object returns what the transport's send returned;
\* when that is false the entry registered for the envelope is in the table
\* after publish, and publish removes no entry.
C13_PublishReturnsSendResult ==
    Published =>
        /\ out.ret = out.sendResult
        /\ \A id \in DOMAIN out.before : id \in DOMAIN messageIdToCallback
        /\ ~out.sendResult =>
               /\ out.ret = FALSE
               /\ out.sent[1].envelope.messageId \in DOMAIN messageIdToCallback
               /\ out.sent[1].envelope.messageId \notin DOMAIN out.before

C13_Witness ==
    /\ Published
    /\ out.ret = FALSE
    /\ out.sent[1].envelope.messageId \in DOMAIN messageIdToCallback
    /\ DOMAIN out.before /= {}

\* the requests that were registered without a timeToLive
Untimed ==
    {transportLog[i].envelope.messageId : i \in
        {j \in 1..Len(transportLog) :
            /\ transportLog[j].registered
            /\ "timeToLive" \notin DOMAIN transportLog[j].envelope.payload}}

\* C14: a request registered without a timeToLive has no timer, at its
\* publish and ever after; it is in the table as long as its callback has
\* not been invoked, and only a message with its messageId invokes the
\* callback or removes the entry.
C14_UntimedNeverExpires ==
    /\ (Published /\ "timeToLive" \notin DOMAIN out.input.msg) => out.armed = {}
    /\ \A id \in Untimed :
           /\ \A t \in timers : t.messageId /= id
           /\ count[id] = 0 => id \in DOMAIN messageIdToCallback
           /\ (callsOf(out.calls, id) > 0
                   \/ (id \in DOMAIN out.before /\ id \notin DOMAIN messageIdToCallback))
                  => (ReceivedId /\ out.input.value.messageId = id)

C14_Witness ==
    /\ out.op = "timer"
    /\ \E id \in Untimed :
           /\ id \in DOMAIN messageIdToCallback
           /\ count[id] = 0
    /\ timers = {}

\* C15: the envelope publish hands to the transport has the topic of the
\* message, a messageId that no earlier envelope had, and a payload with
\* every field of the message but topic, with processId and runtimeVersion,
\* and without a topic.
C15_EnvelopeShape ==
    /\ \A i, j \in 1..Len(transportLog) :
           transportLog[i].envelope.messageId = transportLog[j].envelope.messageId
               => i = j
    /\ \A i \in 1..Len(transportLog) :
           /\ DOMAIN transportLog[i].envelope = {"topic", "messageId", "payload"}
           /\ {"processId", "runtimeVersion"} \subseteq
                  DOMAIN transportLog[i].envelope.payload
           /\ "topic" \notin DOMAIN transportLog[i].envelope.payload
    /\ Published =>
           LET msg == out.input.msg
               envelope == out.sent[1].envelope
           IN /\ envelope = transportLog[Len(transportLog)].envelope
              /\ envelope.topic = msg.topic
              /\ DOMAIN envelope.payload =
                     (DOMAIN msg \ {"topic"}) \cup {"processId", "runtimeVersion"}
              /\ \A k \in DOMAIN msg \ {"topic"} : envelope.payload[k] = msg[k]
              /\ envelope.payload.processId = ProcessId
              /\ envelope.payload.runtimeVersion = RuntimeVersion

C15_Witness ==
    /\ Published
    /\ Len(transportLog) = 2
    /\ out.input.msg = AppAssetsGetList
    /\ out.sent[1].envelope.payload.type = "get-list"
    /\ out.sent[1].envelope.messageId /= transportLog[1].envelope.messageId

\* C17: after the handler has dealt with a message whose messageId had a
\* pending entry, the entry is gone, also when the callback threw; a message
\* for a request whose callback was invoked before invokes no callback.
C17_ResponseAlwaysRemovesEntry ==
    /\ ReceivedResponse => out.input.value.messageId \notin DOMAIN messageIdToCallback
    /\ (ReceivedId /\ out.input.value.messageId \in DOMAIN count) =>
           (countBefore(out.input.value.messageId) >= 1 =>
                callsOf(out.calls, out.input.value.messageId) = 0)

\* C18: a message whose messageId has a pending entry goes to that
\* request's callback and to no listener, also when it has every field of a
\* broadcast; listeners are invoked only by messages whose messageId has no
\* pending entry.
C18_ResponseBeforeBroadcast ==
    /\ ReceivedResponse =>
           out.calls = <<[kind |-> "callback", id |-> out.input.value.messageId,
                          arg |-> out.input.value]>>
    /\ (out.op = "message" /\ \E i \in 1..Len(out.calls) : out.calls[i].kind = "listener")
           => (ReceivedId /\ ~ReceivedResponse)

C18_Witness ==
    /\ ReceivedResponse
    /\ CompleteBroadcast(out.input.value)
    /\ \E l \in 1..Len(listeners) :
           listeners[l] = Route("broadcast", out.input.value.topic,
                                out.input.value.payload.action)
    /\ Len(out.calls) = 1
    /\ out.calls[1].kind = "callback"

\* the local-startup-url config read when fetchOptions was called was an
\* object with a truthy offlineAccess
OfflineMode ==
    /\ "local-startup-url" \in DOMAIN fetch.input.argo
    /\ fetch.input.localFile = Json([js |-> "object", offlineAccess |-> TRUE])

\* the read of startup-url or config has failed: no data, or no JSON
PrimaryFailed == fetch.pc \in {"local", "done"} /\ fetch.primary.file \in {"missing", "text"}

\* neither startup-url nor config holds a string
NoConfigString ==
    \A k \in {"startup-url", "config"} :
        k \in DOMAIN fetch.input.argo => fetch.input.argo[k].js /= "string"

\* C20: a fetchOptions call reads the local config after its own read only in
\* offline mode.  With an onError function: when the read of startup-url
\* or config fails in offline mode, the local-startup-url file is read next
\* and onComplete gets its contents, or onError its error; when it fails
\* outside offline mode, onError gets that failure and nothing else is read;
\* when neither startup-url nor config is a string, onError gets the
\* missing-argument error and nothing is read.
C20_LocalFallbackOnlyOffline ==
    fetch.pc /= "idle" =>
        /\ (fetch.pc = "local" \/ Len(fetch.started) > 1) => OfflineMode
        /\ fetch.input.onError.js = "function" =>
               /\ (PrimaryFailed /\ OfflineMode) =>
                      /\ Len(fetch.started) = 2
                      /\ fetch.started[2] = [io |-> "readFile", target |-> LocalStartupUrl]
                      /\ fetch.pc = "done" =>
                             /\ Len(fetch.calls) = 1
                             /\ IF fetch.local.file = "json"
                                THEN fetch.calls[1] =
                                         [fn |-> "onComplete",
                                          arg |-> [configObject |-> fetch.local.value,
                                                   configUrl |-> LocalStartupUrl]]
                                ELSE /\ fetch.calls[1].fn = "onError"
                                     /\ fetch.calls[1].arg.js = "Error"
               /\ (PrimaryFailed /\ ~OfflineMode) =>
                      /\ fetch.pc = "done"
                      /\ Len(fetch.started) = 1
                      /\ fetch.failure.js = "Error"
                      /\ fetch.calls = <<[fn |-> "onError", arg |-> fetch.failure]>>
               /\ NoConfigString =>
                      /\ fetch.pc = "done"
                      /\ fetch.started = <<>>
                      /\ fetch.calls =
                             <<[fn |-> "onError",
                                arg |-> [js |-> "Error",
                                         message |-> "missing runtime argument --startup-url"]]>>

C20_Witness ==
    /\ fetch.pc = "done"
    /\ PrimaryFailed
    /\ OfflineMode
    /\ fetch.started[1].io = "getURL"
    /\ fetch.local.file = "json"
    /\ Len(fetch.calls) = 1
    /\ fetch.calls[1].fn = "onComplete"

\* the default fields of the data of a 'started' event
DefaultPaths ==
    {<<"parentApp", "uuid">>, <<"licenseKey">>, <<"client", "type">>,
     <<"client", "version">>, <<"client", "pid">>, <<"uuid">>}

\* the value of obj at path, undefined when a step of the path is absent
RECURSIVE At(_, _)
At(obj, path) ==
    IF path = <<>>
    THEN obj
    ELSE IF Head(path) \in DOMAIN obj THEN At(obj[Head(path)], Tail(path)) ELSE Undefined

\* C16: registerLicenseInfo hands the transport an envelope with topic
\* application-event whose payload has type started and the sessionId of the
\* process; each default field of data the caller gave a value has that
\* value, each other default field is there and null; the call returns what
\* the transport's send returned.
C16_LicenseDefaultsOverlaid ==
    out.op = "registerLicenseInfo" =>
        LET envelope == out.sent[1].envelope
        IN /\ envelope.topic = "application-event"
           /\ envelope.payload.type = "started"
           /\ envelope.payload.sessionId = SessionId
           /\ \A path \in DefaultPaths :
                  LET supplied == At(out.input.licInfo, <<"data">> \o path)
                  IN At(envelope.payload, <<"data">> \o path) =
                         IF supplied = Undefined THEN Null ELSE supplied
           /\ out.ret = out.sendResult

\* C21: a fetchOptions call invokes at most one callback, counting
\* onComplete and onError together: never both, never one of them twice,
\* whatever was fetched and whatever the callbacks do.
C21_AtMostOneCallback ==
    Len(fetch.calls) <= 1

\* convertToElectron has returned inside the container
Converted == out.op = "convertToElectron" /\ out.input.inContainer

\* size is at least min and, where max is not -1, at most max
Within(min, max, size) == size >= min /\ (max /= NoMax => size <= max)

\* C22, as claimed: inside the container the height convertToElectron returns
\* is never below minHeight and never above a maxHeight other than -1, and
\* the width likewise, for all the integers the options can hold.
C22_SizeWithinMinAndMax ==
    Converted =>
        /\ Within(out.ret.minHeight.n, out.ret.maxHeight.n, out.ret.height.n)
        /\ Within(out.ret.minWidth.n, out.ret.maxWidth.n, out.ret.width.n)

\* C22, amended: where maxHeight is -1 or not below minHeight, the height is
\* defaultHeight brought into the range: not below minHeight, not above a
\* maxHeight other than -1, and defaultHeight itself when that is in the
\* range; where maxHeight is another number below minHeight, the height is
\* minHeight when defaultHeight is below it and maxHeight otherwise.  The
\* width likewise.
C22_SizeClampedWhenRangeNotEmpty ==
    Converted =>
        \A d \in {[min |-> out.ret.minHeight.n, max |-> out.ret.maxHeight.n,
                    default |-> out.ret.defaultHeight.n, size |-> out.ret.height.n],
                   [min |-> out.ret.minWidth.n, max |-> out.ret.maxWidth.n,
                    default |-> out.ret.defaultWidth.n, size |-> out.ret.width.n]} :
            IF d.max = NoMax \/ d.min <= d.max
            THEN /\ Within(d.min, d.max, d.size)
                 /\ Within(d.min, d.max, d.default) => d.size = d.default
            ELSE d.size = IF d.default < d.min THEN d.min ELSE d.max

C22_Witness ==
    /\ Converted
    /\ "maxHeight" \in DOMAIN out.input.options
    /\ out.ret.maxHeight = Num(1)
    /\ out.ret.minHeight = Num(0)
    /\ out.ret.defaultHeight = Num(500)
    /\ out.ret.height = Num(1)
    /\ out.ret.maxWidth.n > out.ret.minWidth.n
    /\ out.ret.width.n = out.ret.minWidth.n

====
